---- MODULE Spec2Model ----
(***************************************************************************)
(* Model of framer-form-email-api/index.js: the POST /api/form/submit      *)
(* handler, its helpers (esc, normalize, the Payload schema) and the two   *)
(* awaited resend.emails.send calls.                                       *)
(*                                                                         *)
(* A JavaScript string is a sequence of one-character strings.  A chunk of *)
(* literal template text is one multi-character element, so that literal   *)
(* markup and characters that come from the request stay distinguishable.  *)
(* A parsed request body (a JavaScript object) is the sequence of its      *)
(* entries, in Object.entries order, with pairwise distinct keys.          *)
(***************************************************************************)
EXTENDS Naturals, Sequences, FiniteSets

VARIABLES reqBody, pc, locals, calls, responses

vars == <<reqBody, pc, locals, calls, responses>>

(* ------------------------------ bounds --------------------------------- *)

NumReqs == 2

MaxLen == 3

MaxFields == 3

Reqs == 1..NumReqs

(* --------------------------- string helpers ---------------------------- *)

RECURSIVE replaceFrom(_, _, _, _)
replaceFrom(s, i, c, rep) ==
  IF i > Len(s) THEN <<>>
  ELSE (IF s[i] = c THEN rep ELSE <<s[i]>>) \o replaceFrom(s, i + 1, c, rep)

(* s.replaceAll(c, rep) for a one-character c.  (The set binds v to the     *)
(* value of s, so that s is evaluated once.)                                *)
replaceAll(s, c, rep) == CHOOSE out \in {replaceFrom(v, 1, c, rep) : v \in {s}} : TRUE

IsSpace(c) == c \in {" ", "\n", "\t"}

(* s.trim(): s without its leading and trailing white space. *)
trim(s) ==
  LET kept == {i \in 1..Len(s) : ~IsSpace(s[i])}
  IN IF kept = {} THEN <<>>
     ELSE SubSeq(s, CHOOSE i \in kept : \A j \in kept : i <= j,
                    CHOOSE i \in kept : \A j \in kept : j <= i)

(* toLowerCase on the upper-case letters that keys of the bodies hold. *)
lowerChar(c) ==
  CASE c = "E" -> "e"
    [] c = "N" -> "n"
    [] c = "S" -> "s"
    [] c = "M" -> "m"
    [] OTHER -> c

toLowerCase(s) == [i \in 1..Len(s) |-> lowerChar(s[i])]

RECURSIVE join(_, _)
join(lines, sep) ==
  IF lines = <<>> THEN <<>>
  ELSE IF Len(lines) = 1 THEN lines[1]
  ELSE lines[1] \o sep \o join(Tail(lines), sep)

digit(d) ==
  CASE d = 0 -> "0" [] d = 1 -> "1" [] d = 2 -> "2" [] d = 3 -> "3"
    [] d = 4 -> "4" [] d = 5 -> "5" [] d = 6 -> "6" [] d = 7 -> "7"
    [] d = 8 -> "8" [] d = 9 -> "9"

RECURSIVE numberText(_)
numberText(n) ==
  IF n < 10 THEN <<digit(n)>> ELSE numberText(n \div 10) \o <<digit(n % 10)>>

(* A JSON value of the body: a string, a number or null. *)
StrVal(s) == [kind |-> "string", str |-> s, num |-> 0]
NumVal(n) == [kind |-> "number", str |-> <<>>, num |-> n]
NullVal == [kind |-> "null", str |-> <<>>, num |-> 0]

JSONstringify(v) ==
  CASE v.kind = "number" -> numberText(v.num)
    [] v.kind = "null" -> <<"n", "u", "l", "l">>
    [] v.kind = "string" -> <<"\"">> \o v.str \o <<"\"">>

(* ------------------------------ esc ------------------------------------ *)

AMP == <<"&", "a", "m", "p", ";">>
LT == <<"&", "l", "t", ";">>
GT == <<"&", "g", "t", ";">>

(* Escaping the ampersand last escapes the entities just written. *)
esc_ampLast(s) == replaceAll(replaceAll(replaceAll(s, "<", LT), ">", GT), "&", AMP)

esc(s) == replaceAll(replaceAll(replaceAll(s, "&", AMP), "<", LT), ">", GT)

(* ---------------------------- normalize -------------------------------- *)

hasKey(obj, k) == \E i \in 1..Len(obj) : obj[i].k = k

get(obj, k) == obj[CHOOSE i \in 1..Len(obj) : obj[i].k = k].v

(* out[k] = v on an object: an existing key keeps its position. *)
put(obj, k, v) ==
  IF hasKey(obj, k)
  THEN [i \in 1..Len(obj) |-> IF obj[i].k = k THEN [k |-> k, v |-> v] ELSE obj[i]]
  ELSE Append(obj, [k |-> k, v |-> v])

RECURSIVE normalizeInto(_, _)
normalizeInto(entries, out) ==
  IF entries = <<>> THEN out
  ELSE LET kk == toLowerCase(Head(entries).k)
           v == Head(entries).v
       IN normalizeInto(Tail(entries),
                        put(out, kk, IF v.kind = "string" THEN v.str ELSE JSONstringify(v)))

normalize(obj) == normalizeInto(obj, <<>>)

(* ------------------------------ Payload -------------------------------- *)

K_name == <<"n", "a", "m", "e">>
K_email == <<"e", "m", "a", "i", "l">>
K_subject == <<"s", "u", "b", "j", "e", "c", "t">>
K_message == <<"m", "e", "s", "s", "a", "g", "e">>
K_page == <<"p", "a", "g", "e">>
K_location == <<"l", "o", "c", "a", "t", "i", "o", "n">>

NameMin == 1
NameMax == 120
SubjectMax == 160
MessageMax == 5000

Letters ==
  {"a", "b", "c", "d", "e", "f", "g", "h", "i", "j", "k", "l", "m", "n", "o", "p",
   "q", "r", "s", "t", "u", "v", "w", "x", "y", "z"}

Digits == {"0", "1", "2", "3", "4", "5", "6", "7", "8", "9"}

(* z.string().email(): local@domain, the local part of letters, digits and  *)
(* _ ' + - . with no leading, trailing or doubled dot, the domain dotted    *)
(* labels ending in a top-level label of at least two letters.              *)
isEmail(s) ==
  /\ Cardinality({i \in 1..Len(s) : s[i] = "@"}) = 1
  /\ LET at == CHOOSE i \in 1..Len(s) : s[i] = "@"
         local == SubSeq(s, 1, at - 1)
         domain == SubSeq(s, at + 1, Len(s))
         dots == {i \in 1..Len(domain) : domain[i] = "."}
         lastDot == CHOOSE i \in dots : \A j \in dots : j <= i
     IN /\ local # <<>>
        /\ \A i \in 1..Len(local) : local[i] \in Letters \cup Digits \cup {"_", "'", "+", "-", "."}
        /\ local[1] # "." /\ local[Len(local)] # "."
        /\ \A i \in 1..Len(s) - 1 : ~(s[i] = "." /\ s[i + 1] = ".")
        /\ domain # <<>> /\ dots # {}
        /\ \A i \in 1..Len(domain) : domain[i] \in Letters \cup Digits \cup {"-", "."}
        /\ domain[1] \in Letters \cup Digits
        /\ \A i \in dots : i > 1 /\ domain[i - 1] # "."
        /\ Len(domain) - lastDot >= 2
        /\ \A i \in (lastDot + 1)..Len(domain) : domain[i] \in Letters

(* The keys of the schema that the body fails on (ZodError's fieldErrors). *)
fieldErrors(body) ==
  {k \in {K_name} : hasKey(body, k)
                    /\ (Len(get(body, k)) < NameMin \/ Len(get(body, k)) > NameMax)}
  \cup {k \in {K_email} : ~hasKey(body, k) \/ ~isEmail(get(body, k))}
  \cup {k \in {K_subject} : hasKey(body, k) /\ Len(get(body, k)) > SubjectMax}
  \cup {k \in {K_message} : hasKey(body, k) /\ Len(get(body, k)) > MessageMax}

(* Payload.parse(body): the body itself (passthrough), or a thrown ZodError. *)
PayloadParse(body) ==
  IF fieldErrors(body) = {}
  THEN [threw |-> FALSE, data |-> body]
  ELSE [threw |-> TRUE, err |-> [name |-> "ZodError", flatten |-> fieldErrors(body)]]

(* --------------------------- the handler's values ----------------------- *)

Visitor == <<"V", "i", "s", "i", "t", "o", "r">>
WebsiteInquiry ==
  <<"W", "e", "b", "s", "i", "t", "e", " ", "I", "n", "q", "u", "i", "r", "y">>

(* data.k as a JavaScript condition: present and not the empty string. *)
truthy(data, k) == hasKey(data, k) /\ get(data, k) # <<>>

subjectOf(data) == trim(IF truthy(data, K_subject) THEN get(data, K_subject) ELSE WebsiteInquiry)

nameOf(data) == trim(IF truthy(data, K_name) THEN get(data, K_name) ELSE Visitor)

(* Taking any non-empty message as it was sent. *)
messageOf_untrimmed(data, body) ==
  IF truthy(data, K_message)
  THEN get(data, K_message)
  ELSE join([i \in 1..Len(body) |-> body[i].k \o <<":", " ">> \o body[i].v], <<"\n">>)

messageOf(data, body) ==
  IF truthy(data, K_message) /\ trim(get(data, K_message)) # <<>>
  THEN trim(get(data, K_message))
  ELSE join([i \in 1..Len(body) |-> body[i].k \o <<":", " ">> \o body[i].v], <<"\n">>)

ownerHtml(data, name, subject, message) ==
  <<"\n <div style=..>\n <h2>New form submission</h2>\n <p><b>Name:</b> ">> \o esc(name)
  \o <<"</p>\n <p><b>Email:</b> ">> \o esc(get(data, K_email))
  \o <<"</p>\n ">>
  \o (IF truthy(data, K_location)
      THEN <<"<p><b>Location:</b> ">> \o esc(get(data, K_location)) \o <<"</p>">>
      ELSE <<>>)
  \o <<"\n ">>
  \o (IF truthy(data, K_page)
      THEN <<"<p><b>Page:</b> ">> \o esc(get(data, K_page)) \o <<"</p>">>
      ELSE <<>>)
  \o <<"\n <p><b>Subject:</b> ">> \o esc(subject)
  \o <<"</p>\n <p><b>Message / Fields:</b><br/>">>
  \o replaceAll(esc(message), "\n", <<"<br/>">>)
  \o <<"</p>\n </div>">>

userHtml(name, message) ==
  <<"\n <div style=..>\n <p>Hi ">> \o esc(name)
  \o <<",</p>\n <p>Thanks for reaching out. ..</p>\n <hr>\n <p><b>Your submission</b></p>\n <pre style=..>">>
  \o esc(message)
  \o <<"</pre>\n <p>- Team</p>\n </div>">>

(* process.env.MAIL_FROM and MAIL_TO, read once at startup. *)
FROM == <<"MAIL_FROM">>
TO == <<"MAIL_TO">>

ownerMail(data, subject, html) ==
  [from |-> FROM, to |-> TO, replyTo |-> get(data, K_email),
   subject |-> <<"(memo) New form submission: ">> \o subject, html |-> html]

userMail(data, subject, html) ==
  [from |-> FROM, to |-> get(data, K_email),
   subject |-> <<"We got your message: ">> \o subject, html |-> html]

(* A catch block without the ZodError branch. *)
catchResponse_always500(err) ==
  [status |-> 500, body |-> [ok |-> FALSE, error |-> "ServerError"]]

(* A catch block that passes the thrown message on to the caller. *)
catchResponse_leak(err) ==
  IF err.name = "ZodError"
  THEN [status |-> 400,
        body |-> [ok |-> FALSE, error |-> "ValidationError", details |-> err.flatten]]
  ELSE [status |-> 500,
        body |-> [ok |-> FALSE, error |-> "ServerError", message |-> err.message]]

(* The catch block: the response for a thrown value. *)
catchResponse(err) ==
  IF err.name = "ZodError"
  THEN [status |-> 400,
        body |-> [ok |-> FALSE, error |-> "ValidationError", details |-> err.flatten]]
  ELSE [status |-> 500, body |-> [ok |-> FALSE, error |-> "ServerError"]]

okResponse == [status |-> 200, body |-> [ok |-> TRUE]]

(* ------------------------------- inputs -------------------------------- *)

Alphabet == {"a", " ", "&", "<", ">", "\n"}

Strs == UNION {[1..m -> Alphabet] : m \in 0..MaxLen}

Field(key, val) == [k |-> key, v |-> val]

E_email == <<"E", "m", "a", "i", "l">>
AtBCo == <<"a", "@", "b", ".", "c", "o">>
CAtBCo == <<"c", "@", "b", ".", "c", "o">>

(* Entries a form may post, a few per key. *)
StructFields ==
  {Field(K_email, StrVal(AtBCo)), Field(K_email, StrVal(<<"a", "b">>)),
   Field(E_email, StrVal(CAtBCo)), Field(E_email, NumVal(7)),
   Field(K_name, StrVal(<<>>)), Field(K_name, StrVal(<<" ">>)),
   Field(K_subject, StrVal(<<>>)), Field(K_subject, StrVal(<<" ">>)),
   Field(K_message, StrVal(<<>>)), Field(K_message, StrVal(<<" ">>)),
   Field(K_message, StrVal(<<" ", "a">>)), Field(K_message, NullVal),
   Field(K_location, StrVal(<<"<">>)), Field(K_page, StrVal(<<"&">>))}

distinctKeys(obj) == \A i, j \in 1..Len(obj) : obj[i].k = obj[j].k => i = j

StructBodies ==
  {b \in UNION {[1..m -> StructFields] : m \in 0..MaxFields} : distinctKeys(b)}

(* A valid email and one more string, any over Alphabet, under a schema key. *)
ProbeBodies ==
  {<<Field(K_email, StrVal(AtBCo)), Field(k, StrVal(s))>> :
     k \in {K_name, K_subject, K_message, K_location, K_page}, s \in Strs}

Bodies == StructBodies \cup ProbeBodies

(* Bodies of the requests that are in flight together. *)
ConcBodies ==
  {<<Field(K_email, StrVal(AtBCo)), Field(K_message, StrVal(<<"<">>))>>,
   <<Field(E_email, StrVal(CAtBCo)), Field(K_name, StrVal(<<"a">>))>>,
   <<Field(K_name, StrVal(<<"a">>))>>}

(* ------------------------------- state --------------------------------- *)

(* The handler's const bindings; empty until the statement that binds them. *)
NoLocals == [body |-> <<>>, data |-> <<>>, subject |-> <<>>, name |-> <<>>, message |-> <<>>]

Init ==
  /\ reqBody \in [Reqs -> ConcBodies]
  /\ pc = [r \in Reqs |-> "start"]
  /\ locals = [r \in Reqs |-> NoLocals]
  /\ calls = [r \in Reqs |-> <<>>]
  /\ responses = [r \in Reqs |-> <<>>]

(* One request, its body any of Bodies; the other slots hold no request. *)
InitInput ==
  /\ \E b \in Bodies : reqBody = [r \in Reqs |-> IF r = 1 THEN b ELSE <<>>]
  /\ pc = [r \in Reqs |-> IF r = 1 THEN "start" ELSE "none"]
  /\ locals = [r \in Reqs |-> NoLocals]
  /\ calls = [r \in Reqs |-> <<>>]
  /\ responses = [r \in Reqs |-> <<>>]

(* resend.emails.send(mail): the call is issued and its promise is pending. *)
send(r, mail) == Append(calls[r], [mail |-> mail, status |-> "pending"])

lastCall(r) == calls[r][Len(calls[r])]

settle(r, st) == [calls EXCEPT ![r][Len(calls[r])].status = st]

(* What a rejected send throws at its await. *)
sendError(call) == [name |-> "Error", message |-> <<"send failed: ">> \o call.mail.to]

(* ------------------------------ actions -------------------------------- *)

(* A catch block whose ZodError branch does not return: it answers twice. *)
SubmitRejected_fallThrough(r) ==
  /\ pc[r] = "start"
  /\ \E body \in {normalize(reqBody[r])} : \E parsed \in {PayloadParse(body)} :
        /\ parsed.threw
        /\ locals' = [locals EXCEPT ![r].body = body]
        /\ responses' = [responses EXCEPT ![r] =
              @ \o <<catchResponse(parsed.err),
                     [status |-> 500, body |-> [ok |-> FALSE, error |-> "ServerError"]]>>]
  /\ pc' = [pc EXCEPT ![r] = "done"]
  /\ UNCHANGED <<reqBody, calls>>

(* Lines 91-92 throw: normalize, Payload.parse fails, the catch block answers. *)
SubmitRejected(r) ==
  /\ pc[r] = "start"
  /\ \E body \in {normalize(reqBody[r])} : \E parsed \in {PayloadParse(body)} :
        /\ parsed.threw
        /\ locals' = [locals EXCEPT ![r].body = body]
        /\ responses' = [responses EXCEPT ![r] = Append(@, catchResponse(parsed.err))]
  /\ pc' = [pc EXCEPT ![r] = "done"]
  /\ UNCHANGED <<reqBody, calls>>

(* Lines 91-122: up to the first await, the operator message issued.  (A   *)
(* const binding is \E over the one value bound.)                          *)
SubmitAccepted(r) ==
  /\ pc[r] = "start"
  /\ \E body \in {normalize(reqBody[r])} : \E parsed \in {PayloadParse(body)} :
        /\ ~parsed.threw
        /\ \E data \in {parsed.data} :
           \E subject \in {subjectOf(data)}, name \in {nameOf(data)},
              message \in {messageOf(data, body)} :
             /\ locals' = [locals EXCEPT ![r] =
                   [body |-> body, data |-> data, subject |-> subject,
                    name |-> name, message |-> message]]
             /\ calls' = [calls EXCEPT ![r] =
                   send(r, ownerMail(data, subject, ownerHtml(data, name, subject, message)))]
  /\ pc' = [pc EXCEPT ![r] = "await1"]
  /\ UNCHANGED <<reqBody, responses>>

(* The provider settles the pending call, or never does. *)
ProviderFulfil(r) ==
  /\ pc[r] \in {"await1", "await2"}
  /\ lastCall(r).status = "pending"
  /\ calls' = settle(r, "fulfilled")
  /\ UNCHANGED <<reqBody, pc, locals, responses>>

ProviderReject(r) ==
  /\ pc[r] \in {"await1", "await2"}
  /\ lastCall(r).status = "pending"
  /\ calls' = settle(r, "rejected")
  /\ UNCHANGED <<reqBody, pc, locals, responses>>

ProviderHang(r) ==
  /\ pc[r] \in {"await1", "await2"}
  /\ lastCall(r).status = "pending"
  /\ calls' = settle(r, "hung")
  /\ UNCHANGED <<reqBody, pc, locals, responses>>

(* The handler answering after the operator message alone. *)
AfterOwnerSend_skipReply(r) ==
  /\ pc[r] = "await1"
  /\ lastCall(r).status = "fulfilled"
  /\ responses' = [responses EXCEPT ![r] = Append(@, okResponse)]
  /\ pc' = [pc EXCEPT ![r] = "done"]
  /\ UNCHANGED <<reqBody, locals, calls>>

(* The handler going on to the auto-reply however the first send settled. *)
AfterOwnerSend_anySettled(r) ==
  /\ pc[r] = "await1"
  /\ lastCall(r).status \in {"fulfilled", "rejected"}
  /\ calls' = [calls EXCEPT ![r] =
        send(r, userMail(locals[r].data, locals[r].subject,
                         userHtml(locals[r].name, locals[r].message)))]
  /\ pc' = [pc EXCEPT ![r] = "await2"]
  /\ UNCHANGED <<reqBody, locals, responses>>

(* The handler's bindings kept in variables that requests share: the        *)
(* auto-reply is built from those of whichever request bound them last.     *)
AfterOwnerSend_shared(r) ==
  /\ pc[r] = "await1"
  /\ lastCall(r).status = "fulfilled"
  /\ \E q \in Reqs :
       /\ Len(calls[q]) >= 1
       /\ calls' = [calls EXCEPT ![r] =
             send(r, userMail(locals[q].data, locals[q].subject,
                              userHtml(locals[q].name, locals[q].message)))]
  /\ pc' = [pc EXCEPT ![r] = "await2"]
  /\ UNCHANGED <<reqBody, locals, responses>>

(* Lines 124-140: the first await returned; the auto-reply is issued. *)
AfterOwnerSend(r) ==
  /\ pc[r] = "await1"
  /\ lastCall(r).status = "fulfilled"
  /\ calls' = [calls EXCEPT ![r] =
        send(r, userMail(locals[r].data, locals[r].subject,
                         userHtml(locals[r].name, locals[r].message)))]
  /\ pc' = [pc EXCEPT ![r] = "await2"]
  /\ UNCHANGED <<reqBody, locals, responses>>

(* Line 142: the second await returned; res.json({ ok: true }). *)
AfterUserSend(r) ==
  /\ pc[r] = "await2"
  /\ lastCall(r).status = "fulfilled"
  /\ responses' = [responses EXCEPT ![r] = Append(@, okResponse)]
  /\ pc' = [pc EXCEPT ![r] = "done"]
  /\ UNCHANGED <<reqBody, locals, calls>>

(* Lines 143-151: an await threw; the catch block answers. *)
Catch(r) ==
  /\ pc[r] \in {"await1", "await2"}
  /\ lastCall(r).status = "rejected"
  /\ responses' = [responses EXCEPT ![r] = Append(@, catchResponse(sendError(lastCall(r))))]
  /\ pc' = [pc EXCEPT ![r] = "done"]
  /\ UNCHANGED <<reqBody, locals, calls>>

Handler(r) ==
  \/ SubmitRejected(r)
  \/ SubmitAccepted(r)
  \/ AfterOwnerSend(r)
  \/ AfterUserSend(r)
  \/ Catch(r)

Provider(r) ==
  \/ ProviderFulfil(r)
  \/ ProviderReject(r)
  \/ ProviderHang(r)

Next == \E r \in Reqs : Handler(r) \/ Provider(r)

Spec == Init /\ [][Next]_vars

SpecInput == InitInput /\ [][Next]_vars

(* The event loop runs every continuation that is ready, and the provider   *)
(* decides every call: it fulfils it, rejects it, or never answers.         *)
SpecLive ==
  /\ Init
  /\ [][Next]_vars
  /\ \A r \in Reqs : WF_vars(Handler(r)) /\ WF_vars(Provider(r))

(* ------------------------- vocabulary of the claims --------------------- *)

validated(r) == Len(calls[r]) >= 1

ownEmail(r) == get(normalize(reqBody[r]), K_email)

nthStatus(r, i) == IF Len(calls[r]) >= i THEN calls[r][i].status ELSE "unissued"

serverError == [status |-> 500, body |-> [ok |-> FALSE, error |-> "ServerError"]]

startsWith(s, p) == Len(s) >= Len(p) /\ SubSeq(s, 1, Len(p)) = p

(* C1: a request whose normalized body passes the schema and whose sends    *)
(* both succeed issues exactly two sends, the operator message to MAIL_TO   *)
(* first and the auto-reply to the submitter's email only once the first    *)
(* has completed, and is answered 200 {ok:true} only after the second has   *)
(* completed.                                                               *)
C1_TwoSendsThenOk ==
  \A r \in Reqs :
    /\ Len(calls[r]) <= 2
    /\ Len(calls[r]) >= 1 => calls[r][1].mail.to = TO
    /\ Len(calls[r]) = 2 =>
         /\ calls[r][1].status = "fulfilled"
         /\ calls[r][2].mail.to = ownEmail(r)
    /\ (\E i \in 1..Len(responses[r]) : responses[r][i].status = 200) =>
         /\ Len(calls[r]) = 2
         /\ calls[r][2].status = "fulfilled"
    /\ (pc[r] = "done" /\ validated(r)
        /\ \A i \in 1..Len(calls[r]) : calls[r][i].status = "fulfilled") =>
         /\ Len(calls[r]) = 2
         /\ responses[r] = <<[status |-> 200, body |-> [ok |-> TRUE]]>>

C1_Witness ==
  \E r \in Reqs :
    /\ pc[r] = "done"
    /\ Len(calls[r]) = 2
    /\ calls[r][2].status = "fulfilled"
    /\ Len(responses[r]) = 1 /\ responses[r][1].status = 200

(* C2: a request whose normalized body has no email, or an email that is    *)
(* not a valid address, is answered 400 with ok:false and error             *)
(* "ValidationError", never 500, and no send is issued for it.              *)
C2_BadEmailIs400 ==
  \A r \in Reqs :
    LET body == normalize(reqBody[r])
    IN (~hasKey(body, K_email) \/ ~isEmail(get(body, K_email))) =>
         /\ calls[r] = <<>>
         /\ pc[r] \notin {"await1", "await2"}
         /\ pc[r] = "done" =>
              /\ Len(responses[r]) = 1
              /\ responses[r][1].status = 400
              /\ responses[r][1].body.ok = FALSE
              /\ responses[r][1].body.error = "ValidationError"

C2_Witness ==
  \E r \in Reqs :
    /\ pc[r] = "done"
    /\ hasKey(normalize(reqBody[r]), K_email)
    /\ ~isEmail(get(normalize(reqBody[r]), K_email))
    /\ Len(responses[r]) = 1 /\ responses[r][1].status = 400

(* C3: when the first send of a validated request rejects, the request is   *)
(* answered 500 {ok:false, error:"ServerError"}, the auto-reply is never    *)
(* issued, and the failed send is not issued again.                         *)
C3_FirstFailureStops ==
  \A r \in Reqs :
    nthStatus(r, 1) = "rejected" =>
      /\ Len(calls[r]) = 1
      /\ pc[r] = "done" => responses[r] = <<serverError>>

C3_Witness ==
  \E r \in Reqs :
    /\ nthStatus(r, 1) = "rejected"
    /\ pc[r] = "done"
    /\ responses[r] = <<serverError>>

(* C4: two requests with the same body, one whose first send failed and one *)
(* whose first send succeeded and second failed, get the same response,     *)
(* 500 {ok:false, error:"ServerError"} and nothing more, although the       *)
(* operator message went out for one and not for the other.                 *)
C4_PartialLooksTotal ==
  \A r1, r2 \in Reqs :
    (/\ reqBody[r1] = reqBody[r2]
     /\ pc[r1] = "done" /\ pc[r2] = "done"
     /\ nthStatus(r1, 1) = "rejected"
     /\ nthStatus(r2, 2) = "rejected") =>
      /\ responses[r1] = responses[r2]
      /\ responses[r1] = <<serverError>>
      /\ nthStatus(r2, 1) = "fulfilled"

C4_Witness ==
  \E r1, r2 \in Reqs :
    /\ reqBody[r1] = reqBody[r2]
    /\ pc[r1] = "done" /\ pc[r2] = "done"
    /\ nthStatus(r1, 1) = "rejected"
    /\ nthStatus(r2, 1) = "fulfilled" /\ nthStatus(r2, 2) = "rejected"
    /\ responses[r1] = responses[r2]

(* Reading escaped text back: each entity stands for its character. *)
RECURSIVE decode(_)
decode(x) ==
  IF x = <<>> THEN <<>>
  ELSE IF startsWith(x, AMP) THEN <<"&">> \o decode(SubSeq(x, Len(AMP) + 1, Len(x)))
  ELSE IF startsWith(x, LT) THEN <<"<">> \o decode(SubSeq(x, Len(LT) + 1, Len(x)))
  ELSE IF startsWith(x, GT) THEN <<">">> \o decode(SubSeq(x, Len(GT) + 1, Len(x)))
  ELSE <<Head(x)>> \o decode(Tail(x))

(* No raw < or >, and every & begins one of the three entities. *)
inert(x) ==
  \A i \in 1..Len(x) :
    /\ x[i] \notin {"<", ">"}
    /\ x[i] = "&" =>
         \E e \in {AMP, LT, GT} : startsWith(SubSeq(x, i, Len(x)), e)

isTemplateText(e) == Len(e) > 1 /\ e # "<br/>"

(* The stretches of an HTML body between its chunks of template text. *)
RECURSIVE embedded(_, _)
embedded(html, cur) ==
  IF html = <<>> THEN <<cur>>
  ELSE IF isTemplateText(Head(html)) THEN <<cur>> \o embedded(Tail(html), <<>>)
  ELSE embedded(Tail(html), Append(cur, Head(html)))

(* What stands between the chunks of the operator HTML, in order: the      *)
(* values, the location and page each within its own paragraph when given, *)
(* and nothing where an optional paragraph is left out.                    *)
ownerValues(r) ==
  LET d == locals[r].data
      optional(k) == IF truthy(d, k) THEN <<<<>>, get(d, k), <<>>>> ELSE <<<<>>>>
  IN <<locals[r].name, get(d, K_email)>>
     \o optional(K_location) \o optional(K_page)
     \o <<locals[r].subject, locals[r].message>>

(* C5: in both HTML bodies of a validated request every embedded value      *)
(* (name, email, location, page, subject, message) is the value escaped,    *)
(* & as &amp;, < as &lt;, > as &gt;: the embedded text holds no < and no >, *)
(* every & in it begins one of the three entities, and it reads back as the *)
(* value; the operator message adds only <br/>, one for each newline of the *)
(* escaped message.                                                         *)
C5_EmbeddedValuesEscaped ==
  \A r \in Reqs :
    /\ Len(calls[r]) >= 1 =>
         LET parts == embedded(calls[r][1].mail.html, <<>>)
             vals == ownerValues(r)
             n == Len(vals)
         IN /\ Len(parts) = n + 2
            /\ parts[1] = <<>> /\ parts[n + 2] = <<>>
            /\ \A i \in 1..(n - 1) : inert(parts[i + 1]) /\ decode(parts[i + 1]) = vals[i]
            /\ LET m == parts[n + 1]
                   text == replaceAll(m, "<br/>", <<"\n">>)
               IN /\ \A i \in 1..Len(m) : m[i] # "\n"
                  /\ inert(text) /\ decode(text) = vals[n]
    /\ Len(calls[r]) >= 2 =>
         LET parts == embedded(calls[r][2].mail.html, <<>>)
         IN /\ Len(parts) = 4
            /\ parts[1] = <<>> /\ parts[4] = <<>>
            /\ inert(parts[2]) /\ decode(parts[2]) = locals[r].name
            /\ inert(parts[3]) /\ decode(parts[3]) = locals[r].message

C5_Witness ==
  \E r \in Reqs :
    /\ Len(calls[r]) = 2
    /\ locals[r].message = <<"&", "\n", "<">>
    /\ \E i \in 1..Len(calls[r][1].mail.html) : calls[r][1].mail.html[i] = "<br/>"

(* C6: for a validated request the effective name is "Visitor" when the     *)
(* submitted name is absent or blank after trimming, the effective subject  *)
(* is "Website Inquiry" when the submitted subject is absent or blank after *)
(* trimming, and otherwise each is the trimmed submitted value; the two     *)
(* email subjects carry that subject.                                       *)
C6_BlankMeansDefault ==
  \A r \in Reqs :
    validated(r) =>
      LET body == normalize(reqBody[r])
          blank(k) == ~hasKey(body, k) \/ trim(get(body, k)) = <<>>
          name == IF blank(K_name) THEN Visitor ELSE trim(get(body, K_name))
          subject == IF blank(K_subject) THEN WebsiteInquiry ELSE trim(get(body, K_subject))
      IN /\ locals[r].name = name
         /\ locals[r].subject = subject
         /\ \A i \in 1..Len(calls[r]) :
              SubSeq(calls[r][i].mail.subject, 2, Len(calls[r][i].mail.subject)) = subject

(* The "key: value" lines of an object, one per entry, joined by newlines. *)
RECURSIVE fieldDump(_)
fieldDump(obj) ==
  IF obj = <<>> THEN <<>>
  ELSE obj[1].k \o <<":", " ">> \o obj[1].v
       \o (IF Len(obj) > 1 THEN <<"\n">> \o fieldDump(Tail(obj)) ELSE <<>>)

(* obj's entries under lowercased keys: one entry per lowercased key, at    *)
(* the place of the key's first entry, holding the text of its last one.    *)
isNormalized(raw, body) ==
  LET at(k) == {j \in 1..Len(raw) : toLowerCase(raw[j].k) = k}
      first(k) == CHOOSE j \in at(k) : \A j2 \in at(k) : j <= j2
      last(k) == CHOOSE j \in at(k) : \A j2 \in at(k) : j2 <= j
      text(v) == IF v.kind = "string" THEN v.str
                 ELSE IF v.kind = "null" THEN <<"n", "u", "l", "l">>
                 ELSE numberText(v.num)
  IN /\ distinctKeys(body)
     /\ {body[i].k : i \in 1..Len(body)} = {toLowerCase(raw[j].k) : j \in 1..Len(raw)}
     /\ \A i \in 1..Len(body) : body[i].v = text(raw[last(body[i].k)].v)
     /\ \A i, j \in 1..Len(body) : i < j => first(body[i].k) < first(body[j].k)

(* C7: for a validated request the effective message is the trimmed         *)
(* submitted message when that is present and not blank, and otherwise the  *)
(* newline-joined "key: value" lines of every field of the normalized body  *)
(* (lowercased keys, non-string values as JSON text) in iteration order; a  *)
(* body of only email "a@b.co" gives "email: a@b.co".                       *)
C7_MessageOrFieldDump ==
  \A r \in Reqs :
    validated(r) =>
      LET body == locals[r].body
      IN /\ isNormalized(reqBody[r], body)
         /\ locals[r].message =
              IF hasKey(body, K_message) /\ trim(get(body, K_message)) # <<>>
              THEN trim(get(body, K_message))
              ELSE fieldDump(body)
         /\ reqBody[r] = <<Field(K_email, StrVal(AtBCo))>> =>
              locals[r].message = K_email \o <<":", " ">> \o AtBCo

C7_Witness ==
  \E r \in Reqs :
    /\ validated(r)
    /\ reqBody[r] = <<Field(K_message, StrVal(<<" ">>)), Field(E_email, NumVal(7)),
                      Field(K_email, StrVal(AtBCo))>>
    /\ locals[r].message = K_message \o <<":", " ", " ", "\n">> \o K_email \o <<":", " ">> \o AtBCo

hung(r) == \E i \in 1..Len(calls[r]) : calls[r][i].status = "hung"

(* What a request does as a function of its own body and of how its own     *)
(* sends settled.                                                           *)
ownOutcome(r) ==
  \A body \in {normalize(reqBody[r])} :
  \A subject \in {subjectOf(body)}, name \in {nameOf(body)}, message \in {messageOf(body, body)} :
     /\ fieldErrors(body) # {} => calls[r] = <<>>
     /\ Len(calls[r]) >= 1 =>
          calls[r][1].mail = ownerMail(body, subject, ownerHtml(body, name, subject, message))
     /\ Len(calls[r]) >= 2 =>
          calls[r][2].mail = userMail(body, subject, userHtml(name, message))
     /\ pc[r] # "done" => responses[r] = <<>>
     /\ pc[r] = "done" =>
          responses[r] =
            IF fieldErrors(body) # {}
            THEN <<[status |-> 400,
                    body |-> [ok |-> FALSE, error |-> "ValidationError",
                              details |-> fieldErrors(body)]]>>
            ELSE IF [i \in 1..Len(calls[r]) |-> calls[r][i].status] = <<"fulfilled", "fulfilled">>
            THEN <<[status |-> 200, body |-> [ok |-> TRUE]]>>
            ELSE <<serverError>>

(* A step is one request's: it leaves every other request as it was. *)
oneRequestPerStep ==
  \E r \in Reqs :
    \A q \in Reqs \ {r} :
      /\ pc'[q] = pc[q] /\ locals'[q] = locals[q]
      /\ calls'[q] = calls[q] /\ responses'[q] = responses[q]

(* C9: with requests interleaved at their awaits, each request's sends and  *)
(* response are determined by its own body, the configuration and how its   *)
(* own sends settled, and no step of one request changes another; a request *)
(* whose provider call never completes is never answered, and every request *)
(* whose calls do complete is eventually answered (being hung and being     *)
(* answered both last, so one eventuality speaks for every request).        *)
C9_RequestsIndependent ==
  /\ [](\A r \in Reqs : ownOutcome(r))
  /\ [][oneRequestPerStep]_vars
  /\ [](\A r \in Reqs : hung(r) => responses[r] = <<>>)
  /\ <>(\A r \in Reqs : hung(r) \/ Len(responses[r]) = 1)

C9_Witness ==
  \E r1, r2 \in Reqs :
    /\ reqBody[r1] # reqBody[r2]
    /\ hung(r1) /\ responses[r1] = <<>>
    /\ Len(calls[r2]) = 2 /\ pc[r2] = "done" /\ Len(responses[r2]) = 1

isOwnerMail(m) == "replyTo" \in DOMAIN m /\ m.to = TO

(* C10: a request that entered the handler has at most one response, and    *)
(* exactly one, of status 200, 400 or 500, once none of its sends is        *)
(* outstanding and the handler has nothing left to run; a 200 {ok:true} was *)
(* sent only if both sends were issued and succeeded; the auto-reply was    *)
(* issued only after the operator send was issued and succeeded; and there  *)
(* is at most one operator send and at most one auto-reply.                 *)
C10_HandlerInvariant ==
  \A r \in Reqs :
    /\ Len(responses[r]) <= 1
    /\ (/\ \A i \in 1..Len(calls[r]) : calls[r][i].status \in {"fulfilled", "rejected"}
        /\ ~ENABLED Handler(r)) =>
         /\ Len(responses[r]) = 1
         /\ responses[r][1].status \in {200, 400, 500}
    /\ \A i \in 1..Len(responses[r]) :
         responses[r][i].status = 200 =>
           /\ responses[r][i].body = [ok |-> TRUE]
           /\ Cardinality({j \in 1..Len(calls[r]) : calls[r][j].status = "fulfilled"}) = 2
    /\ \A i \in 1..Len(calls[r]) :
         ~isOwnerMail(calls[r][i].mail) =>
           \E j \in 1..(i - 1) :
             isOwnerMail(calls[r][j].mail) /\ calls[r][j].status = "fulfilled"
    /\ Cardinality({i \in 1..Len(calls[r]) : isOwnerMail(calls[r][i].mail)}) <= 1
    /\ Cardinality({i \in 1..Len(calls[r]) : ~isOwnerMail(calls[r][i].mail)}) <= 1

C10_Witness ==
  \E r1, r2 \in Reqs :
    /\ pc[r1] = "done" /\ responses[r1][1].status = 400
    /\ pc[r2] = "await2" /\ calls[r2][2].status = "pending"

====
